---- MODULE Spec2Model ----
(***************************************************************************)
(* A model of gitreader's indexing pipeline and query layer:               *)
(*   app/gitreader/storage.py   the index store (load_index, save_index)   *)
(*   app/gitreader/service.py   get_repo_index, get_symbol_snippet         *)
(*   app/gitreader/routes.py    the graph and symbol routes                *)
(* The acquirer (ingest), scanner (scan), parser (parse_python), resolver  *)
(* (graph) and data classes (models) are not among the source files; they  *)
(* are modelled from their contracts in spec.md and marked as such.        *)
(***************************************************************************)
EXTENDS Integers, Sequences, FiniteSets, TLC

VARIABLES
    \* ---- pipeline (service.get_repo_index) ----
    repoSpec,   \* the RepoSpec of the one repository (one repo_id)
    dirExists,  \* whether <root>/pkg exists
    tree,       \* file -> content of <root>/pkg/<file>, or Absent
    commit,     \* handle.commit_sha ("" when the path is not under version control)
    store,      \* the cache file <cache_root>/index/<repo_id>.json
    call,       \* outcome of the last get_repo_index call
    \* ---- store file under concurrent save_index / load_index ----
    disk,       \* the cache file: whether it exists and the chunks it holds
    wpc,        \* writer -> position in save_index
    rpc,        \* reader -> position in load_index
    robs,       \* reader -> what load_index read
    \* ---- resolver (graph.build_graph, call-site resolution) ----
    rtable,     \* the symbol table of the file being resolved
    rcalls,     \* the call sites resolved so far
    redges,     \* the edge emitted for each of them
    \* ---- symbol snippet query ----
    sreq,       \* the request: the node asked for, its source file, max_lines
    sres,       \* what the query produced
    \* ---- graph query ----
    gindex,     \* the RepoIndex served: nodes and edges
    gscope,     \* the scope token of the request
    gres,       \* the nodes and edges produced
    \* ---- table of contents query ----
    tindex,     \* the RepoIndex served: nodes and edges
    tres        \* what the query produced

pipeVars == <<repoSpec, dirExists, tree, commit, store, call>>
fileVars == <<disk, wpc, rpc, robs>>
resVars == <<rtable, rcalls, redges>>
snipVars == <<sreq, sres>>
graphVars == <<gindex, gscope, gres>>
tocVars == <<tindex, tres>>
vars == <<repoSpec, dirExists, tree, commit, store, call, disk, wpc, rpc, robs,
          rtable, rcalls, redges, sreq, sres, gindex, gscope, gres, tindex, tres>>
notPipe == <<fileVars, resVars, snipVars, graphVars, tocVars>>
notFile == <<pipeVars, resVars, snipVars, graphVars, tocVars>>
notRes == <<pipeVars, fileVars, snipVars, graphVars, tocVars>>
notSnip == <<pipeVars, fileVars, resVars, graphVars, tocVars>>
notGraph == <<pipeVars, fileVars, resVars, snipVars, tocVars>>
notToc == <<pipeVars, fileVars, resVars, snipVars, graphVars>>

(***************************************************************************)
(* Bounds of the model.                                                    *)
(***************************************************************************)
NumFiles == 2
MaxBytes == 2
NumWriters == 2
NumReaders == 1
DocLen == 2
MaxCalls == 2
MaxStart == 4
MaxEnd == 6
MaxTotal == 6
MaxMaxLines == 3
MaxEdges == 2
MaxStoryEdges == 2

Files == 1..NumFiles
Sizes == 1..MaxBytes
Commits == {"", "c1"}
Absent == [syntax |-> "absent", size |-> 0]
Contents == [syntax : {"good", "bad"}, size : Sizes]
SubdirChoices == {"", "pkg"}

RECURSIVE SumSizes(_, _)
SumSizes(t, S) ==
    IF S = {} THEN 0
    ELSE LET f == CHOOSE x \in S : TRUE IN t[f].size + SumSizes(t, S \ {f})

RECURSIVE SortedSeq(_)
SortedSeq(S) ==
    IF S = {} THEN <<>>
    ELSE LET m == CHOOSE x \in S : \A y \in S : x <= y
         IN <<m>> \o SortedSeq(S \ {m})

SeqToSet(s) == {s[i] : i \in DOMAIN s}

(***************************************************************************)
(* Collaborators that are not among the source files (contracts of         *)
(* spec.md sections 4.1 - 4.4).                                            *)
(***************************************************************************)
\* os.path.isdir(os.path.join(handle.root_path, spec.subdir))
IsDir(exists, subdir) == subdir = "pkg" /\ exists

\* Relative path of file f below the scan root.
FileNames == <<"f1.py", "f2.py", "f3.py", "f4.py">>
RelPath(f, scan_root) ==
    IF scan_root = "root" THEN <<"pkg", FileNames[f]>> ELSE <<FileNames[f]>>

\* scan.scan_repo: every regular file below the scan root is a candidate.
scan_repo(t, scan_root) ==
    LET present == {f \in Files : t[f] # Absent}
    IN [python_files     |-> SortedSeq(present),
        total_files      |-> Cardinality(present),
        total_bytes      |-> SumSizes(t, present),
        extension_counts |-> IF present = {} THEN <<>>
                             ELSE << <<".py", Cardinality(present)>> >>,
        warnings         |-> <<>>]

\* A parser warning for one file.
SyntaxWarning(f, scan_root) == [code |-> "syntax_error", path |-> RelPath(f, scan_root)]

RECURSIVE ParseWarnings(_, _, _)
ParseWarnings(t, files, scan_root) ==
    IF files = <<>> THEN <<>>
    ELSE (IF t[Head(files)].syntax = "bad"
          THEN <<SyntaxWarning(Head(files), scan_root)>> ELSE <<>>)
         \o ParseWarnings(t, Tail(files), scan_root)

\* parse_python.parse_files: a file with a syntax error yields a warning and
\* no symbols; every other file is parsed.
parse_files(t, scan_root, python_files) ==
    [files    |-> SelectSeq(python_files, LAMBDA f : t[f].syntax = "good"),
     warnings |-> ParseWarnings(t, python_files, scan_root)]

FileId(f, scan_root) == <<"file">> \o RelPath(f, scan_root)
SymbolId(f, scan_root) == <<"symbol">> \o RelPath(f, scan_root) \o <<"ok">>

\* graph.build_graph: a file node and the node of the one function each
\* parsed file defines, with the file's contains edge.
build_graph(parsed_files, scan_root) ==
    [nodes |-> {FileId(f, scan_root) : f \in SeqToSet(parsed_files)}
               \cup {SymbolId(f, scan_root) : f \in SeqToSet(parsed_files)},
     edges |-> [i \in DOMAIN parsed_files |->
                  [source |-> FileId(parsed_files[i], scan_root),
                   target |-> SymbolId(parsed_files[i], scan_root),
                   kind |-> "contains", confidence |-> "medium"]]]

(***************************************************************************)
(* storage.py                                                              *)
(***************************************************************************)
NoSig == <<>>
NoIndex ==
    [repo_id |-> "", root_path |-> "", commit_sha |-> "", nodes |-> {},
     edges |-> <<>>, warnings |-> <<>>, stats |-> <<>>, content_signature |-> NoSig]
Missing == [kind |-> "missing", index |-> NoIndex]
StoredIndex(index) == [kind |-> "index", index |-> index]
\* What the environment can leave in place of a written index file.
CorruptKinds == {"unreadable", "undecodable", "notjson", "notdict", "nofields"}

\* RepoIndex.from_dict on a decoded JSON object (models.py is not among the
\* source files): the index that was saved, or nothing for an object that
\* lacks the index fields.
from_dict(file) ==
    IF file.kind = "index" THEN [outcome |-> "index", index |-> file.index]
    ELSE [outcome |-> "none", index |-> NoIndex]

\* load_index: its result, or the exception that leaves it.
\*   os.path.exists false                       -> None
\*   open raises OSError                        -> None
\*   json.load raises JSONDecodeError           -> None
\*   json.load raises UnicodeDecodeError        -> not caught (a ValueError
\*       that is neither OSError nor JSONDecodeError)
\*   payload is not a dict                      -> None
load_index(file) ==
    CASE file.kind = "missing"     -> [outcome |-> "none", index |-> NoIndex]
      [] file.kind = "unreadable"  -> [outcome |-> "none", index |-> NoIndex]
      [] file.kind = "undecodable" -> [outcome |-> "raised", index |-> NoIndex]
      [] file.kind = "notjson"     -> [outcome |-> "none", index |-> NoIndex]
      [] file.kind = "notdict"     -> [outcome |-> "none", index |-> NoIndex]
      [] OTHER                     -> from_dict(file)

\* save_index, seen by a caller that runs alone: the file holds the index.
save_index(index) == StoredIndex(index)

(***************************************************************************)
(* service.py: get_repo_index                                              *)
(***************************************************************************)
\* _compute_signature: sha1 of the payload string; the digest is modelled by
\* the payload it is taken of.
_compute_signature(commit_sha, scan_result) ==
    <<"sha1", commit_sha, scan_result.total_files, scan_result.total_bytes,
      Len(scan_result.python_files), scan_result.extension_counts>>

\* ingest.ensure_repo (not among the source files): the handle of the
\* repository; repo_id is a digest of the spec.
ensure_repo(spec, commit_sha) ==
    [repo_id |-> <<"repo", spec.subdir>>, root_path |-> "root", commit_sha |-> commit_sha]

\* service.py lines 29-31: the effective scan root.
ScanRootOf(spec) == IF spec.subdir # "" THEN "root/pkg" ELSE "root"

\* Mutant of SubdirMissing: the subdir is never validated.
SubdirMissing_Unchecked(spec, exists) == FALSE

\* service.py line 32: the subdir check.
SubdirMissing(spec, exists) == spec.subdir # "" /\ ~IsDir(exists, spec.subdir)

\* Mutant of CacheValid: any cached index is reused, whatever its signature.
CacheValid_AnyCached(loaded, content_signature) == loaded.outcome = "index"

\* service.py line 39: "if cached and cached.content_signature == content_signature"
CacheValid(loaded, content_signature) ==
    loaded.outcome = "index" /\ loaded.index.content_signature = content_signature

\* Mutant of MergeWarnings: the parser's warnings are dropped.
MergeWarnings_ScanOnly(scan_warnings, parsed_warnings) == scan_warnings

\* service.py line 45: warnings = scan_result.warnings + parsed.warnings
MergeWarnings(scan_warnings, parsed_warnings) == scan_warnings \o parsed_warnings

NoCall ==
    [status |-> "none", error |-> "", result |-> NoIndex, parsed |-> FALSE,
     wrote |-> FALSE, sig |-> NoSig, loaded |-> "notcalled", before |-> Missing,
     acquired |-> FALSE]

\* The call ends in an exception: nothing is returned.
Raised(error, acquired, sig, loaded, file) ==
    [status |-> "raised", error |-> error, result |-> NoIndex, parsed |-> FALSE,
     wrote |-> FALSE, sig |-> sig, loaded |-> loaded, before |-> file,
     acquired |-> acquired]

\* The call returns an index.
Returned(index, built, sig, loaded, file) ==
    [status |-> "returned", error |-> "", result |-> index, parsed |-> built,
     wrote |-> built, sig |-> sig, loaded |-> loaded, before |-> file,
     acquired |-> TRUE]

\* The index get_repo_index builds on a miss (service.py lines 42-66).  toc
\* (derived from the nodes) and generated_at (the wall clock, read by no code
\* in the source files) are left out of the record.
BuildIndex(handle, scan_root, t, scan_result, content_signature) ==
    LET parsed == parse_files(t, scan_root, scan_result.python_files)
        graph == build_graph(parsed.files, scan_root)
        warnings == MergeWarnings(scan_result.warnings, parsed.warnings)
    IN [repo_id |-> handle.repo_id,
        root_path |-> scan_root,
        commit_sha |-> handle.commit_sha,
        nodes |-> graph.nodes,
        edges |-> graph.edges,
        warnings |-> warnings,
        stats |-> <<scan_result.total_files, scan_result.total_bytes,
                    Len(scan_result.python_files), Cardinality(graph.nodes),
                    Len(graph.edges), Len(warnings)>>,
        content_signature |-> content_signature]

\* get_repo_index: the new cache file and the call's outcome.
get_repo_index(spec, acquired, exists, t, commit_sha, file) ==
    IF ~acquired
    THEN [store |-> file,
          call |-> Raised("AcquisitionError", FALSE, NoSig, "notcalled", file)]
    ELSE IF SubdirMissing(spec, exists)
    THEN [store |-> file,
          call |-> Raised("ValueError", TRUE, NoSig, "notcalled", file)]
    ELSE
      LET handle == ensure_repo(spec, commit_sha)
          scan_root == ScanRootOf(spec)
          scan_result == scan_repo(t, scan_root)
          content_signature == _compute_signature(handle.commit_sha, scan_result)
          cached == load_index(file)
      IN IF cached.outcome = "raised"
         THEN [store |-> file,
               call |-> Raised("UnicodeDecodeError", TRUE, content_signature,
                               "raised", file)]
         ELSE IF CacheValid(cached, content_signature)
         THEN [store |-> file,
               call |-> Returned(cached.index, FALSE, content_signature,
                                 cached.outcome, file)]
         ELSE LET index == BuildIndex(handle, scan_root, t, scan_result, content_signature)
              IN [store |-> save_index(index),
                  call |-> Returned(index, TRUE, content_signature,
                                    cached.outcome, file)]

(***************************************************************************)
(* The pipeline as a state machine: one repository, whose tree the         *)
(* environment edits between calls of get_repo_index.                      *)
(***************************************************************************)
FileIdle ==
    /\ disk = <<>>
    /\ wpc = <<>>
    /\ rpc = <<>>
    /\ robs = <<>>

ResIdle ==
    /\ rtable = <<>>
    /\ rcalls = <<>>
    /\ redges = <<>>

SnipIdle ==
    /\ sreq = <<>>
    /\ sres = <<>>

GraphIdle ==
    /\ gindex = <<>>
    /\ gscope = <<>>
    /\ gres = <<>>

TocIdle ==
    /\ tindex = <<>>
    /\ tres = <<>>

PipeInit ==
    /\ repoSpec \in [subdir : SubdirChoices]
    /\ dirExists = FALSE
    /\ tree = [f \in Files |-> Absent]
    /\ commit \in Commits
    /\ store = Missing
    /\ call = NoCall

Init == PipeInit /\ FileIdle /\ ResIdle /\ SnipIdle /\ GraphIdle /\ TocIdle

\* The environment creates <root>/pkg.
MakeDir ==
    /\ ~dirExists
    /\ dirExists' = TRUE
    /\ call' = NoCall
    /\ UNCHANGED <<repoSpec, tree, commit, store>>
    /\ UNCHANGED notPipe

\* The environment removes <root>/pkg and what it holds.
RemoveDir ==
    /\ dirExists
    /\ dirExists' = FALSE
    /\ tree' = [f \in Files |-> Absent]
    /\ call' = NoCall
    /\ UNCHANGED <<repoSpec, commit, store>>
    /\ UNCHANGED notPipe

\* The environment writes, rewrites or deletes one file.
EditFile ==
    /\ dirExists
    /\ \E f \in Files, c \in Contents \cup {Absent} :
          /\ tree[f] # c
          /\ tree' = [tree EXCEPT ![f] = c]
    /\ call' = NoCall
    /\ UNCHANGED <<repoSpec, dirExists, commit, store>>
    /\ UNCHANGED notPipe

\* The environment commits or checks out: commit_sha changes.
ChangeCommit ==
    /\ \E c \in Commits \ {commit} : commit' = c
    /\ call' = NoCall
    /\ UNCHANGED <<repoSpec, dirExists, tree, store>>
    /\ UNCHANGED notPipe

\* A caller runs get_repo_index(spec, cache_root) to its end.
GetRepoIndex ==
    /\ \E acquired \in BOOLEAN :
          LET out == get_repo_index(repoSpec, acquired, dirExists, tree, commit, store)
          IN /\ store' = out.store
             /\ call' = out.call
    /\ UNCHANGED <<repoSpec, dirExists, tree, commit>>
    /\ UNCHANGED notPipe

Next ==
    \/ MakeDir
    \/ RemoveDir
    \/ EditFile
    \/ ChangeCommit
    \/ GetRepoIndex

Spec == Init /\ [][Next]_vars

\* The environment damages the cache file: it becomes unreadable, holds bytes
\* that are not UTF-8, text that is not JSON, JSON that is not an object, or an
\* object without the index fields.
Corrupt ==
    /\ \E k \in CorruptKinds : store' = [kind |-> k, index |-> NoIndex]
    /\ call' = NoCall
    /\ UNCHANGED <<repoSpec, dirExists, tree, commit>>
    /\ UNCHANGED notPipe

NextCorrupt ==
    \/ MakeDir
    \/ RemoveDir
    \/ EditFile
    \/ ChangeCommit
    \/ GetRepoIndex
    \/ Corrupt

\* The pipeline with an environment that can also damage the cache file.
SpecCorrupt == Init /\ [][NextCorrupt]_vars

(***************************************************************************)
(* Claims about get_repo_index.  While call.status # "none" the tree, the  *)
(* commit and the directory are those the call ran on, and store is the    *)
(* cache file the call left.                                               *)
(***************************************************************************)
\* The call got as far as scanning (it has a fresh signature).
Scanned == call.status # "none" /\ call.sig # NoSig
GoodFiles == {f \in Files : tree[f].syntax = "good"}
BadFiles == {f \in Files : tree[f].syntax = "bad"}

\* The cache file the call found holds an index with the fresh signature.
StoredSignatureMatches ==
    /\ call.before.kind = "index"
    /\ call.before.index.content_signature = call.sig

\* The call returned the stored index unchanged, without parsing or writing.
ReturnedStored ==
    /\ call.status = "returned"
    /\ call.before.kind = "index"
    /\ call.result = call.before.index
    /\ ~call.parsed
    /\ ~call.wrote
    /\ store = call.before

\* The call parsed, built and overwrote the entry with the index it returns.
Rebuilt ==
    /\ call.status = "returned"
    /\ call.parsed
    /\ call.wrote
    /\ store = StoredIndex(call.result)
    /\ store.index.content_signature = call.sig

\* C1: a call that reaches the scan returns the stored index unchanged (no
\* parse, no resolve, no write) iff the stored index's content_signature equals
\* the fresh signature; otherwise (no stored index or a different signature) it
\* rebuilds and overwrites the entry, whose signature is then the fresh one.
C1_CacheReuseIffSignatureMatches ==
    Scanned =>
        /\ ReturnedStored <=> StoredSignatureMatches
        /\ ~StoredSignatureMatches => Rebuilt

\* C1 witness: a call found an index with the fresh signature and reused it,
\* after an earlier call had replaced an index with another signature.
C1_Witness ==
    /\ Scanned
    /\ ReturnedStored
    /\ call.result.nodes # {}

SyntaxErrorWarnings(index) ==
    {i \in DOMAIN index.warnings : index.warnings[i].code = "syntax_error"}

\* The index holds the symbol node of every valid file and exactly one
\* syntax_error warning, for the one bad file.
FaultIsolated(index) ==
    /\ \A f \in GoodFiles : SymbolId(f, ScanRootOf(repoSpec)) \in index.nodes
    /\ Cardinality(SyntaxErrorWarnings(index)) = 1
    /\ \A i \in SyntaxErrorWarnings(index) :
          \E f \in BadFiles : index.warnings[i].path = RelPath(f, ScanRootOf(repoSpec))

\* C2 as stated: on a tree with one bad candidate file every call succeeds and
\* its index (also the cached one) holds the nodes of all valid files and exactly
\* one syntax_error warning.
C2_Original ==
    (Scanned /\ Cardinality(BadFiles) = 1) =>
        /\ call.status = "returned"
        /\ FaultIsolated(call.result)
        /\ store = StoredIndex(call.result)

\* C2 amended: on a tree with one bad candidate file every call succeeds, and
\* whenever the stored index does not carry the fresh signature the index the
\* call builds and caches holds the nodes of all valid files and exactly one
\* syntax_error warning, for the bad file.
C2_FaultIsolation ==
    (Scanned /\ Cardinality(BadFiles) = 1) =>
        /\ call.status = "returned"
        /\ ~StoredSignatureMatches =>
              /\ FaultIsolated(call.result)
              /\ store = StoredIndex(call.result)

\* C2 witness: an index was built from a tree with one bad and one good file.
C2_Witness ==
    /\ Scanned
    /\ Cardinality(BadFiles) = 1
    /\ GoodFiles # {}
    /\ ~StoredSignatureMatches
    /\ call.parsed

\* C4: a missing, unreadable or structurally invalid cache file is a miss:
\* load_index yields None without raising and the call rebuilds, overwrites the
\* file and returns the new index.
C4_CorruptionIsMiss ==
    (Scanned /\ call.before.kind \in CorruptKinds \cup {"missing"}) =>
        /\ call.loaded = "none"
        /\ Rebuilt

\* The call was made with an acquisition that fails or a subdir that is absent.
FailsBeforeScan ==
    /\ call.status # "none"
    /\ \/ ~call.acquired
       \/ repoSpec.subdir # "" /\ ~IsDir(dirExists, repoSpec.subdir)

\* C5: a call whose acquisition fails or whose subdir does not exist raises,
\* returns no index and leaves the cache file as it found it.
C5_EarlyFailureLeavesStore ==
    FailsBeforeScan =>
        /\ call.status = "raised"
        /\ call.error \in {"AcquisitionError", "ValueError"}
        /\ call.result = NoIndex
        /\ ~call.parsed
        /\ ~call.wrote
        /\ store = call.before

\* C5 witness: a call with a missing subdir failed while an entry was cached.
C5_Witness ==
    /\ FailsBeforeScan
    /\ call.acquired
    /\ call.status = "raised"
    /\ store.kind = "index"

(***************************************************************************)
(* storage.py under concurrent callers.  save_index opens the cache file   *)
(* itself with mode 'w' (which truncates it), json.dump writes the text    *)
(* through the handle, and leaving the with block closes it.  load_index   *)
(* tests os.path.exists, then opens and reads the file.  The text of an    *)
(* index is DocLen chunks; each writer has its own file offset.            *)
(***************************************************************************)
Writers == 1..NumWriters
Readers == 1..NumReaders
Docs == 0..NumWriters
Hole == <<0, 0>>
\* The complete text of document d.
DocText(d) == [i \in 1..DocLen |-> <<d, i>>]

PipeIdle ==
    /\ repoSpec = [subdir |-> ""]
    /\ dirExists = FALSE
    /\ tree = [f \in Files |-> Absent]
    /\ commit = ""
    /\ store = Missing
    /\ call = NoCall

\* What json.load makes of the bytes read: a complete document parses, anything
\* else (an empty or cut-off text, text of two writers) raises JSONDecodeError.
Decode(cells) ==
    IF \E d \in Docs : cells = DocText(d)
    THEN [kind |-> "complete", doc |-> (CHOOSE d \in Docs : cells = DocText(d))]
    ELSE [kind |-> "partial", doc |-> 0]

\* A write of one chunk at offset pos of a file: the gap a truncation by another
\* writer left below pos reads as zero bytes.
WriteAt(cells, pos, chunk) ==
    [i \in 1..(IF pos > Len(cells) THEN pos ELSE Len(cells)) |->
        IF i = pos THEN chunk
        ELSE IF i <= Len(cells) THEN cells[i]
        ELSE Hole]

StoreInit ==
    /\ disk \in {[exists |-> FALSE, cells |-> <<>>], [exists |-> TRUE, cells |-> DocText(0)]}
    /\ wpc = [w \in Writers |-> [at |-> "idle", pos |-> 0]]
    /\ rpc = [r \in Readers |-> "idle"]
    /\ robs = [r \in Readers |-> [kind |-> "nothing", doc |-> 0]]

\* storage.py line 33: open(path, 'w') creates or truncates the file.
SaveOpen(w) ==
    /\ wpc[w].at = "idle"
    /\ disk' = [exists |-> TRUE, cells |-> <<>>]
    /\ wpc' = [wpc EXCEPT ![w] = [at |-> "writing", pos |-> 0]]
    /\ UNCHANGED <<rpc, robs>>
    /\ UNCHANGED notFile

\* storage.py line 34: json.dump writes the next chunk of the text.
SaveWrite(w) ==
    /\ wpc[w].at = "writing"
    /\ wpc[w].pos < DocLen
    /\ disk' = [disk EXCEPT !.cells = WriteAt(disk.cells, wpc[w].pos + 1, <<w, wpc[w].pos + 1>>)]
    /\ wpc' = [wpc EXCEPT ![w].pos = wpc[w].pos + 1]
    /\ UNCHANGED <<rpc, robs>>
    /\ UNCHANGED notFile

\* storage.py lines 33-35: the with block ends, save_index returns.
SaveClose(w) ==
    /\ wpc[w].at = "writing"
    /\ wpc[w].pos = DocLen
    /\ wpc' = [wpc EXCEPT ![w] = [at |-> "idle", pos |-> 0]]
    /\ UNCHANGED <<disk, rpc, robs>>
    /\ UNCHANGED notFile

\* storage.py lines 18-19: os.path.exists.
LoadExists(r) ==
    /\ rpc[r] = "idle"
    /\ IF disk.exists
       THEN /\ rpc' = [rpc EXCEPT ![r] = "open"]
            /\ robs' = [robs EXCEPT ![r] = [kind |-> "nothing", doc |-> 0]]
       ELSE /\ rpc' = rpc
            /\ robs' = [robs EXCEPT ![r] = [kind |-> "nofile", doc |-> 0]]
    /\ UNCHANGED <<disk, wpc>>
    /\ UNCHANGED notFile

\* storage.py lines 20-27: open, json.load, from_dict.
LoadRead(r) ==
    /\ rpc[r] = "open"
    /\ rpc' = [rpc EXCEPT ![r] = "idle"]
    /\ robs' = [robs EXCEPT ![r] = Decode(disk.cells)]
    /\ UNCHANGED <<disk, wpc>>
    /\ UNCHANGED notFile

NextStore ==
    \/ \E w \in Writers : SaveOpen(w)
    \/ \E w \in Writers : SaveWrite(w)
    \/ \E w \in Writers : SaveClose(w)
    \/ \E r \in Readers : LoadExists(r)
    \/ \E r \in Readers : LoadRead(r)

InitStore == PipeIdle /\ StoreInit /\ ResIdle /\ SnipIdle /\ GraphIdle /\ TocIdle

SpecStore == InitStore /\ [][NextStore]_vars

\* C3: a reader of the cache file sees no file, the complete previous index or a
\* complete new index, never a partially written file.
C3_AtomicWrite == \A r \in Readers : robs[r].kind \in {"nothing", "nofile", "complete"}

(***************************************************************************)
(* The resolver's call-site resolution (graph.build_graph is not among the *)
(* source files; spec.md 4.4 and tests/test_gitreader_graph.py lines 27-75 *)
(* give its contract).  The file resolved is main.py of the test: it may   *)
(* define ping and foo at top level, it holds class Greeter with method    *)
(* greet and possibly say, and it may import under the aliases foo, ping   *)
(* and helper_alias.  pkg/foo.py (defining ping) and pkg/helper.py are the *)
(* other parsed files.                                                     *)
(***************************************************************************)
KnownModules == {"pkg.foo", "pkg.helper"}
KnownSymbols == {"pkg.foo.ping", "pkg.helper.helper"}
NoImport == "none"
ImportChoices ==
    [foo : {NoImport, "pkg.foo", "os"},
     ping : {NoImport, "pkg.foo.ping"},
     helper_alias : {NoImport, "pkg.helper"}]
SymbolTables ==
    [defs : SUBSET {"ping", "foo"}, methods : SUBSET {"say"}, imports : ImportChoices]
\* A call site: the function whose body holds it and the identifier called.
Callers == {<<"caller">>, <<"Greeter", "greet">>}
Identifiers ==
    {<<"ping">>, <<"foo">>, <<"helper_alias">>, <<"foo", "ping">>,
     <<"self", "say">>, <<"Greeter", "say">>, <<"print">>}
CallSites == [caller : Callers, ident : Identifiers]

ImportOf(table, alias) ==
    CASE alias = "foo" -> table.imports.foo
      [] alias = "ping" -> table.imports.ping
      [] alias = "helper_alias" -> table.imports.helper_alias
      [] OTHER -> NoImport

SymbolNodeId(qualified) == <<"symbol", qualified>>
FileNodeId(module) == <<"file", module>>
ExternalNodeId(ident) == <<"external", ident>>
CallsEdge(source, target, confidence) ==
    [source |-> source, target |-> target, kind |-> "calls", confidence |-> confidence]
CallerId(site) ==
    SymbolNodeId(<<"main">> \o site.caller)

\* Rule 1: the symbol of the same file the identifier names, or <<>>: a simple
\* name defined at top level, or an attribute of self / of the enclosing class
\* that is a method of that class.
LocalTarget(table, site) ==
    LET ident == site.ident IN
    IF Len(ident) = 1 /\ ident[1] \in table.defs
    THEN SymbolNodeId(<<"main", ident[1]>>)
    ELSE IF /\ Len(ident) = 2
            /\ Len(site.caller) = 2
            /\ ident[1] \in {"self", site.caller[1]}
            /\ ident[2] \in table.methods \cup {"greet"}
    THEN SymbolNodeId(<<"main", site.caller[1], ident[2]>>)
    ELSE <<>>

\* Rule 2: the node an import alias leads to, or <<>>: the symbol node when the
\* alias names a known symbol, the file node when it names a known module.
ImportTarget(table, site) ==
    LET target == ImportOf(table, site.ident[1]) IN
    IF target \in KnownSymbols THEN SymbolNodeId(target)
    ELSE IF target \in KnownModules THEN FileNodeId(target)
    ELSE <<>>

\* Mutant of ResolveCall: the import table is consulted before the file's own
\* definitions.
ResolveCall_ImportFirst(table, site) ==
    IF ImportTarget(table, site) # <<>>
    THEN CallsEdge(CallerId(site), ImportTarget(table, site), "high")
    ELSE IF LocalTarget(table, site) # <<>>
    THEN CallsEdge(CallerId(site), LocalTarget(table, site), "high")
    ELSE CallsEdge(CallerId(site), ExternalNodeId(site.ident), "low")

\* The edge the resolver emits for one call site: rules 1, 2, 3 in order.
ResolveCall(table, site) ==
    IF LocalTarget(table, site) # <<>>
    THEN CallsEdge(CallerId(site), LocalTarget(table, site), "high")
    ELSE IF ImportTarget(table, site) # <<>>
    THEN CallsEdge(CallerId(site), ImportTarget(table, site),
                   IF ImportTarget(table, site)[1] = "file" THEN "medium" ELSE "high")
    ELSE CallsEdge(CallerId(site), ExternalNodeId(site.ident), "low")

InitResolve ==
    /\ rtable \in SymbolTables
    /\ rcalls = <<>>
    /\ redges = <<>>
    /\ PipeIdle /\ FileIdle /\ SnipIdle /\ GraphIdle /\ TocIdle

\* The resolver handles the next call site of the file.
Resolve ==
    /\ Len(rcalls) < MaxCalls
    /\ \E site \in CallSites :
          /\ rcalls' = Append(rcalls, site)
          /\ redges' = Append(redges, ResolveCall(rtable, site))
    /\ UNCHANGED rtable
    /\ UNCHANGED notRes

NextResolve == Resolve

SpecResolve == InitResolve /\ [][NextResolve]_vars

\* The identifier is a simple name the file defines, or self.<method> /
\* <Class>.<method> inside a method of the class that has the method.
DefinedLocally(site) ==
    \/ Len(site.ident) = 1 /\ site.ident[1] \in rtable.defs
    \/ /\ Len(site.ident) = 2
       /\ site.caller = <<"Greeter", "greet">>
       /\ site.ident[1] \in {"self", "Greeter"}
       /\ site.ident[2] = "greet" \/ (site.ident[2] = "say" /\ "say" \in rtable.methods)

\* The identifier's leading component is an alias imported from a parsed module.
ImportedFromKnown(site) ==
    ImportOf(rtable, site.ident[1]) \in KnownModules \cup KnownSymbols

\* C6: every call site gets one calls edge from its function, by the first
\* matching rule: to the local definition when the identifier is defined in the
\* file (also when the same name is imported); else to the file or symbol node of
\* the import alias's target; else to an external node.
C6_ResolutionPriority ==
    \A i \in DOMAIN rcalls :
        LET site == rcalls[i]
            edge == redges[i]
        IN /\ Len(redges) = Len(rcalls)
           /\ edge.kind = "calls"
           /\ edge.source = <<"symbol", <<"main">> \o site.caller>>
           /\ IF DefinedLocally(site)
              THEN edge.target =
                     <<"symbol", IF Len(site.ident) = 1
                                 THEN <<"main", site.ident[1]>>
                                 ELSE <<"main", "Greeter", site.ident[2]>> >>
              ELSE IF ImportedFromKnown(site)
              THEN edge.target \in
                     {<<"file", ImportOf(rtable, site.ident[1])>>,
                      <<"symbol", ImportOf(rtable, site.ident[1])>>}
              ELSE edge.target = <<"external", site.ident>>

\* C6 witness: main.py both imports ping and defines it, and the calls ping()
\* from caller and self.say() from Greeter.greet have been resolved.
C6_Witness ==
    /\ "ping" \in rtable.defs
    /\ rtable.imports.ping = "pkg.foo.ping"
    /\ \E i \in DOMAIN rcalls :
          /\ rcalls[i] = [caller |-> <<"caller">>, ident |-> <<"ping">>]
          /\ redges[i].target = <<"symbol", <<"main", "ping">> >>
    /\ \E i \in DOMAIN rcalls :
          /\ rcalls[i] = [caller |-> <<"Greeter", "greet">>, ident |-> <<"self", "say">>]
          /\ redges[i].target = <<"symbol", <<"main", "Greeter", "say">> >>

(***************************************************************************)
(* service.py: the symbol snippet query, and its route in routes.py.       *)
(***************************************************************************)
DEFAULT_SNIPPET_LINES == 200
DEFAULT_FALLBACK_CONTEXT == 40

Min(a, b) == IF a < b THEN a ELSE b
Max(a, b) == IF a > b THEN a ELSE b

NodeKinds == {"file", "function"}
\* Line counts of a source file: short files, and files around the fallback span.
TotalChoices ==
    0..MaxTotal \cup (DEFAULT_FALLBACK_CONTEXT - 1)..(DEFAULT_FALLBACK_CONTEXT + MaxStart)
MaxLinesChoices ==
    1..MaxMaxLines
    \cup {DEFAULT_FALLBACK_CONTEXT, DEFAULT_FALLBACK_CONTEXT + 1, DEFAULT_SNIPPET_LINES}
\* The source file of the node: readable as UTF-8, readable only with
\* replacement characters, or not readable at all.
SourceFiles ==
    [state : {"utf8"}, total : TotalChoices]
    \cup {[state |-> "undecodable", total |-> 1], [state |-> "oserror", total |-> 0]}
\* A recorded location: start_line and end_line are 0 when the parser did not
\* set them; a file node's location does not start below line 1.
Locations == [start_line : 0..MaxStart, end_line : 0..MaxEnd]
\* node: whether the id is in index.nodes and whether the node has a path.
Requests ==
    {r \in [node : {"absent", "nolocation", "located"}, kind : NodeKinds,
            location : Locations, source : SourceFiles, max_lines : MaxLinesChoices,
            has_id : BOOLEAN] :
        /\ r.kind = "file" => r.location.start_line <= 1
        /\ r.node # "located" =>
              /\ r.location = [start_line |-> 0, end_line |-> 0]
              /\ r.source = [state |-> "utf8", total |-> 1]
              /\ r.kind = "function"
        /\ ~r.has_id => r.node = "absent" /\ r.max_lines = DEFAULT_SNIPPET_LINES}

\* _read_source_lines: the lines read (numbered), [] on OSError.
_read_source_lines(source) ==
    IF source.state = "oserror" THEN <<>> ELSE [i \in 1..source.total |-> i]

\* _resolve_line_range
_resolve_line_range(kind, location, total_lines, max_lines) ==
    LET start_line == Max(1, IF location.start_line # 0 THEN location.start_line ELSE 1)
        end_line == location.end_line
    IN IF kind = "file" /\ end_line <= 0
       THEN <<start_line, Min(total_lines, start_line + max_lines - 1)>>
       ELSE LET end1 == IF end_line < start_line
                        THEN Min(total_lines, start_line + DEFAULT_FALLBACK_CONTEXT - 1)
                        ELSE end_line
                end2 == IF end1 - start_line + 1 > max_lines
                        THEN Min(total_lines, start_line + max_lines - 1)
                        ELSE end1
            IN <<start_line, Min(end2, total_lines)>>

\* lines[start_line - 1:end_line], a Python slice.
Slice(lines, start_line, end_line) ==
    SelectSeq(lines, LAMBDA i : start_line <= i /\ i <= end_line)

SnippetError(message) ==
    [outcome |-> "raised", error |-> "ValueError", message |-> message,
     start_line |-> 0, end_line |-> 0, total_lines |-> 0, truncated |-> FALSE,
     snippet |-> <<>>]

\* get_symbol_snippet(spec, cache_root, symbol_id, max_lines), the index loaded.
get_symbol_snippet(req, max_lines) ==
    IF req.node = "absent" THEN SnippetError("Symbol not found")
    ELSE IF req.node = "nolocation" THEN SnippetError("Symbol has no location")
    ELSE
      LET lines == _read_source_lines(req.source) IN
      IF lines = <<>> THEN SnippetError("Source file is empty or unreadable")
      ELSE
        LET range == _resolve_line_range(req.kind, req.location, Len(lines), max_lines)
            start_line == range[1]
            end_line == range[2]
            line_count == Max(0, end_line - start_line + 1)
            truncated == IF req.kind = "file"
                         THEN end_line < Len(lines)
                         ELSE line_count >= max_lines /\ end_line < Len(lines)
        IN [outcome |-> "returned", error |-> "", message |-> "",
            start_line |-> start_line, end_line |-> end_line,
            total_lines |-> Len(lines), truncated |-> truncated,
            snippet |-> Slice(lines, start_line, end_line)]

\* The parameters get_symbol_snippet declares (service.py lines 72-77) and the
\* keyword arguments _load_symbol_snippet passes (routes.py line 124).
SnippetParameters == {"spec", "cache_root", "symbol_id", "max_lines"}
SnippetKeywords == {"cache_root", "symbol_id", "section"}

\* _load_symbol_snippet: Python binds the keywords to the parameters before the
\* body runs, and raises TypeError for a keyword the function does not declare.
_load_symbol_snippet(req) ==
    IF ~(SnippetKeywords \subseteq SnippetParameters)
    THEN [SnippetError("unexpected keyword argument") EXCEPT !.error = "TypeError"]
    ELSE get_symbol_snippet(req, DEFAULT_SNIPPET_LINES)

\* The symbol route: 400 without an id, 400 for a ValueError of the query, the
\* snippet otherwise; any other exception leaves the view unhandled.
symbol(req) ==
    IF ~req.has_id THEN [status |-> "400", body |-> SnippetError("Missing id")]
    ELSE LET snippet == _load_symbol_snippet(req) IN
         IF snippet.outcome = "raised" /\ snippet.error = "ValueError"
         THEN [status |-> "400", body |-> snippet]
         ELSE IF snippet.outcome = "raised"
         THEN [status |-> "unhandled", body |-> snippet]
         ELSE [status |-> "200", body |-> snippet]

NoResult == [op |-> "none"]

InitSnippet ==
    /\ sreq \in Requests
    /\ sres = NoResult
    /\ PipeIdle /\ FileIdle /\ ResIdle /\ GraphIdle /\ TocIdle

\* _resolve_line_range is applied to the node's location and file length.
ResolveRange ==
    /\ sres = NoResult
    /\ sreq.node = "located"
    /\ sreq.has_id
    /\ sreq.source.total >= 1
    /\ sres' = [op |-> "range",
                range |-> _resolve_line_range(sreq.kind, sreq.location,
                                              sreq.source.total, sreq.max_lines)]
    /\ UNCHANGED sreq
    /\ UNCHANGED notSnip

\* A caller runs get_symbol_snippet with its max_lines.
GetSymbolSnippet ==
    /\ sres = NoResult
    /\ sreq.has_id
    /\ sres' = [op |-> "snippet", snippet |-> get_symbol_snippet(sreq, sreq.max_lines)]
    /\ UNCHANGED sreq
    /\ UNCHANGED notSnip

\* A client requests /api/symbol.
SymbolRoute ==
    /\ sres = NoResult
    /\ sreq.max_lines = DEFAULT_SNIPPET_LINES
    /\ sres' = [op |-> "route", response |-> symbol(sreq)]
    /\ UNCHANGED sreq
    /\ UNCHANGED notSnip

NextSnippet ==
    \/ ResolveRange
    \/ GetSymbolSnippet
    \/ SymbolRoute

SpecSnippet == InitSnippet /\ [][NextSnippet]_vars

\* The node is in the index, has a path, and its file yields lines.
SnippetAvailable ==
    /\ sreq.node = "located"
    /\ _read_source_lines(sreq.source) # <<>>

\* C7: a symbol request with an id either returns the snippet record (id in the
\* index, file located and readable) or fails with a reported error (400); it
\* never ends in an unhandled failure.
C7_SnippetOutcomes ==
    (sres.op = "route" /\ sreq.has_id) =>
        /\ sres.response.status \in {"200", "400"}
        /\ sres.response.status = "200" <=> SnippetAvailable

\* C10: for every node kind, location, total_lines >= 1 and max_lines >= 1 the
\* range (s, e) satisfies 1 <= s <= e <= total_lines and e - s + 1 <= max_lines;
\* with a recorded end_line < start_line it spans at most
\* DEFAULT_FALLBACK_CONTEXT lines (read for nodes other than files, whose range
\* the last clause gives); for a file node it is 1..min(total, max).
C10_RangeBounded ==
    sres.op = "range" =>
        LET s == sres.range[1]
            e == sres.range[2]
        IN /\ 1 <= s
           /\ s <= e
           /\ e <= sreq.source.total
           /\ e - s + 1 <= sreq.max_lines
           /\ (sreq.kind # "file"
               /\ sreq.location.end_line < Max(1, sreq.location.start_line)) =>
                 e - s + 1 <= DEFAULT_FALLBACK_CONTEXT
           /\ sreq.kind = "file" =>
                 s = 1 /\ e = Min(sreq.source.total, sreq.max_lines)

(***************************************************************************)
(* routes.py: the graph query.  A path is the sequence of its components   *)
(* and separators, <<"app", "/", "views.py">>; a scope token is the        *)
(* sequence of its prefix and the rest, <<"group:", "app">>.               *)
(***************************************************************************)
NoPath == <<>>
GraphNode(id, name, kind, path) ==
    [id |-> id, name |-> name, kind |-> kind, path |-> path, summary |-> <<>>]
GraphEdge(source, target, kind, confidence) ==
    [source |-> source, target |-> target, kind |-> kind, confidence |-> confidence]

\* The nodes an index may hold, in the order the resolver inserts them: two
\* files with a function each, two external nodes (one external node per
\* unresolved name), and a node without a location.
NodeUniverse ==
    << GraphNode(<<"file", "main.py">>, "main.py", "file", <<"main.py">>),
       GraphNode(<<"symbol", "main.run">>, "run", "function", <<"main.py">>),
       GraphNode(<<"file", "app/views.py">>, "views.py", "file", <<"app", "/", "views.py">>),
       GraphNode(<<"symbol", "app.views.index">>, "index", "function",
                 <<"app", "/", "views.py">>),
       GraphNode(<<"external", "render_template">>, "render_template", "external", NoPath),
       GraphNode(<<"external", "getcwd">>, "getcwd", "external", NoPath),
       GraphNode(<<"symbol", "lib.Base">>, "Base", "class", NoPath) >>
\* The edges an index may hold, by positions in NodeUniverse.
EdgeUniverse ==
    { <<2, 5, "calls", "low">>, <<2, 6, "calls", "low">>, <<4, 5, "calls", "low">>,
      <<4, 6, "calls", "low">>, <<1, 2, "contains", "medium">>, <<4, 2, "calls", "high">>,
      <<6, 4, "calls", "low">>, <<7, 6, "calls", "low">>, <<5, 6, "calls", "low">> }
EdgeOf(e) == GraphEdge(NodeUniverse[e[1]].id, NodeUniverse[e[2]].id, e[3], e[4])

ScopeTokens ==
    { <<>>, <<"full">>, <<"bogus">>, <<"group:">>, <<"group:", "root">>,
      <<"group:", "app">>, <<"group:", "lib">>, <<"story:", "entry">>,
      <<"story:", "config">>, <<"story:", "routes">>, <<"story:", "templates">>,
      <<"story:", "other">>, <<"story:", "bogus">> }

\* Sequences over S of length at most n.
SeqsUpTo(S, n) == UNION {[1..k -> S] : k \in 0..n}

\* The indexes served: a subset of the node universe in insertion order, and a
\* list of edges (duplicates allowed) between nodes of the index.
Indexes ==
    { [nodes |-> SelectSeq(NodeUniverse, LAMBDA n : n.id \in {NodeUniverse[i].id : i \in chosen}),
       edges |-> [i \in DOMAIN es |-> EdgeOf(es[i])]] :
        chosen \in SUBSET (DOMAIN NodeUniverse),
        es \in SeqsUpTo(EdgeUniverse, MaxEdges) }

NodeIds(nodes) == {nodes[i].id : i \in DOMAIN nodes}
\* repo_index.nodes.get(node_id): the node, or a node of kind "none".
NodeById(nodes, node_id) ==
    IF node_id \in NodeIds(nodes)
    THEN nodes[CHOOSE i \in DOMAIN nodes : nodes[i].id = node_id]
    ELSE GraphNode(node_id, "", "none", NoPath)

\* An index of the pipeline: every edge joins nodes of the index.
WellFormed(index) ==
    \A i \in DOMAIN index.edges :
        /\ index.edges[i].source \in NodeIds(index.nodes)
        /\ index.edges[i].target \in NodeIds(index.nodes)

\* str.startswith on token sequences.
StartsWith(s, prefix) ==
    Len(prefix) <= Len(s) /\ SubSeq(s, 1, Len(prefix)) = prefix
\* os.path.basename(path)
Basename(path) == IF path = <<>> THEN "" ELSE path[Len(path)]
\* The paths of the located nodes (location.path.replace(os.sep, '/')).
LocatedPaths(nodes) == {nodes[i].path : i \in {j \in DOMAIN nodes : nodes[j].path # NoPath}}

\* _group_paths
_group_paths(repo_index, group) ==
    { path \in LocatedPaths(repo_index.nodes) :
        IF group = <<"root">>
        THEN \A i \in DOMAIN path : path[i] # "/"
        ELSE StartsWith(path, group \o <<"/">>) }

entry_names == {"flasky.py", "manage.py", "app.py", "wsgi.py", "asgi.py", "main.py"}
config_names == {"config.py", "settings.py", "configuration.py"}
route_filenames ==
    {"views.py", "routes.py", "handlers.py", "controllers.py", "blueprints.py", "urls.py"}
\* 'render_template' in node.name
NamesRenderTemplate(name) == name \in {"render_template", "flask.render_template"}

\* Mutant of _story_scope_paths: each category keeps every path that
\* qualifies for it, whether or not an earlier category claimed the path.
_story_scope_paths_NoReserve(repo_index) ==
    LET nodes == repo_index.nodes
        file_paths == {nodes[i].path :
                         i \in {j \in DOMAIN nodes :
                                  nodes[j].kind = "file" /\ nodes[j].path # NoPath}}
        entry_paths == {path \in file_paths : Basename(path) \in entry_names}
        config_paths == {path \in file_paths : Basename(path) \in config_names}
        route_paths == {path \in file_paths : Basename(path) \in route_filenames}
                       \cup {nodes[i].path :
                               i \in {j \in DOMAIN nodes :
                                        nodes[j].kind = "blueprint" /\ nodes[j].path # NoPath}}
        render_targets == {nodes[i].id :
                             i \in {j \in DOMAIN nodes :
                                      /\ nodes[j].kind = "external"
                                      /\ NamesRenderTemplate(nodes[j].name)}}
        template_paths == {NodeById(nodes, repo_index.edges[i].source).path :
                             i \in {j \in DOMAIN repo_index.edges :
                                      /\ repo_index.edges[j].target \in render_targets
                                      /\ NodeById(nodes, repo_index.edges[j].source).path
                                           # NoPath}}
    IN [entry |-> entry_paths, config |-> config_paths, routes |-> route_paths,
        templates |-> template_paths,
        other |-> file_paths \ (entry_paths \cup config_paths \cup route_paths
                                \cup template_paths)]

\* _story_scope_paths: scope token -> set of paths.
_story_scope_paths(repo_index) ==
    LET nodes == repo_index.nodes
        file_paths == {nodes[i].path :
                         i \in {j \in DOMAIN nodes :
                                  nodes[j].kind = "file" /\ nodes[j].path # NoPath}}
        entry0 == {path \in file_paths : Basename(path) \in entry_names}
        config0 == {path \in file_paths : Basename(path) \in config_names}
        route0 == {path \in file_paths : Basename(path) \in route_filenames}
                  \cup {nodes[i].path :
                          i \in {j \in DOMAIN nodes :
                                   nodes[j].kind = "blueprint" /\ nodes[j].path # NoPath}}
        render_targets == {nodes[i].id :
                             i \in {j \in DOMAIN nodes :
                                      /\ nodes[j].kind = "external"
                                      /\ NamesRenderTemplate(nodes[j].name)}}
        template0 == {NodeById(nodes, repo_index.edges[i].source).path :
                        i \in {j \in DOMAIN repo_index.edges :
                                 /\ repo_index.edges[j].target \in render_targets
                                 /\ NodeById(nodes, repo_index.edges[j].source).path # NoPath}}
        entry_paths == entry0
        config_paths == config0 \ entry_paths
        route_paths == route0 \ (entry_paths \cup config_paths)
        template_paths == template0 \ (entry_paths \cup config_paths \cup route_paths)
        assigned == entry_paths \cup config_paths \cup route_paths \cup template_paths
    IN [entry |-> entry_paths, config |-> config_paths, routes |-> route_paths,
        templates |-> template_paths, other |-> file_paths \ assigned]

\* story_paths.get(scope, set())
StoryPathsGet(story_paths, scope) ==
    CASE scope = <<"story:", "entry">> -> story_paths.entry
      [] scope = <<"story:", "config">> -> story_paths.config
      [] scope = <<"story:", "routes">> -> story_paths.routes
      [] scope = <<"story:", "templates">> -> story_paths.templates
      [] scope = <<"story:", "other">> -> story_paths.other
      [] OTHER -> {}

FullGraph(repo_index) == [nodes |-> repo_index.nodes, edges |-> repo_index.edges]

\* The ids _apply_scope_paths adds to the allowed ones: external nodes joined
\* by an edge to an allowed node.
ExternalExtra(repo_index, allowed) ==
    LET edges == repo_index.edges
        IsExternal(id) == NodeById(repo_index.nodes, id).kind = "external"
    IN {edges[i].target :
          i \in {j \in DOMAIN edges :
                   /\ edges[j].source \in allowed
                   /\ edges[j].target \notin allowed
                   /\ IsExternal(edges[j].target)}}
       \cup
       {edges[i].source :
          i \in {j \in DOMAIN edges :
                   /\ ~(edges[j].source \in allowed /\ edges[j].target \notin allowed)
                   /\ edges[j].target \in allowed
                   /\ edges[j].source \notin allowed
                   /\ IsExternal(edges[j].source)}}

\* _apply_scope_paths
_apply_scope_paths(repo_index, allowed_paths) ==
    LET nodes == repo_index.nodes
        allowed0 == {nodes[i].id :
                       i \in {j \in DOMAIN nodes :
                                nodes[j].path # NoPath /\ nodes[j].path \in allowed_paths}}
        allowed == allowed0 \cup ExternalExtra(repo_index, allowed0)
    IN IF allowed0 = {} THEN FullGraph(repo_index)
       ELSE [nodes |-> SelectSeq(nodes, LAMBDA n : n.id \in allowed),
             edges |-> SelectSeq(repo_index.edges,
                                 LAMBDA e : e.source \in allowed /\ e.target \in allowed)]

\* The paths a group: or story: scope selects.
ScopePaths(repo_index, scope) ==
    IF scope[1] = "group:" THEN _group_paths(repo_index, Tail(scope))
    ELSE StoryPathsGet(_story_scope_paths(repo_index), scope)

\* Mutant of _filter_graph: a scope that selects nothing yields the (empty)
\* induced subgraph instead of the full graph.
_filter_graph_NoFallback(repo_index, scope) ==
    IF scope = <<>> \/ scope = <<"full">> THEN FullGraph(repo_index)
    ELSE IF scope[1] \in {"group:", "story:"}
    THEN LET paths == ScopePaths(repo_index, scope)
             ids == {repo_index.nodes[i].id :
                       i \in {j \in DOMAIN repo_index.nodes :
                                repo_index.nodes[j].path \in paths}}
         IN [nodes |-> SelectSeq(repo_index.nodes, LAMBDA n : n.id \in ids),
             edges |-> SelectSeq(repo_index.edges,
                                 LAMBDA e : e.source \in ids /\ e.target \in ids)]
    ELSE FullGraph(repo_index)

\* _filter_graph
_filter_graph(repo_index, scope) ==
    IF scope = <<>> \/ scope = <<"full">> THEN FullGraph(repo_index)
    ELSE IF scope[1] \in {"group:", "story:"}
    THEN LET allowed_paths == ScopePaths(repo_index, scope)
         IN IF allowed_paths = {} THEN FullGraph(repo_index)
            ELSE _apply_scope_paths(repo_index, allowed_paths)
    ELSE FullGraph(repo_index)

(***************************************************************************)
(* routes.py: _collapse_externals.                                         *)
(***************************************************************************)
ExternalIds(nodes) == {nodes[i].id : i \in {j \in DOMAIN nodes : nodes[j].kind = "external"}}
GroupId(file_path) == <<"external-group:">> \o file_path
\* f'{count} external symbol{"" if count == 1 else "s"}'
GroupSummary(count) ==
    <<count, IF count = 1 THEN "external symbol" ELSE "external symbols">>
\* The synthetic node of a file, with the summary it ends with.
GroupNode(file_path, names) ==
    [id |-> GroupId(file_path),
     name |-> "External dependencies - " \o Basename(file_path),
     kind |-> "external",
     path |-> file_path,
     summary |-> IF names = {} THEN <<"External dependencies">>
                 ELSE GroupSummary(Cardinality(names))]

\* add_edge: append unless an edge with the same key was added before.
add_edge(acc, source, target, kind, confidence) ==
    LET edge == GraphEdge(source, target, kind, confidence) IN
    IF edge \in acc.seen_edges THEN acc
    ELSE [acc EXCEPT !.seen_edges = acc.seen_edges \cup {edge},
                     !.new_edges = Append(acc.new_edges, edge)]

\* ensure_group_node and the setdefault(...).add(name) that follows it.
ensure_group_node(acc, file_path, name) ==
    [acc EXCEPT
       !.grouped_nodes = IF \E i \in DOMAIN acc.grouped_nodes : acc.grouped_nodes[i] = file_path
                         THEN acc.grouped_nodes
                         ELSE Append(acc.grouped_nodes, file_path),
       !.grouped_externals = acc.grouped_externals \cup {<<file_path, name>>}]

\* Mutant of CollapseEdge: an edge whose source is the external node is kept as
\* it is; only edges into an external node are redirected.
CollapseEdge_TargetOnly(nodes, acc, edge) ==
    LET external_ids == ExternalIds(nodes)
        target_is_external == edge.target \in external_ids
        file_path == NodeById(nodes, edge.source).path
    IN IF edge.source \in external_ids \/ ~target_is_external \/ file_path = NoPath
       THEN add_edge(acc, edge.source, edge.target, edge.kind, edge.confidence)
       ELSE add_edge(ensure_group_node(acc, file_path, NodeById(nodes, edge.target).name),
                     edge.source, GroupId(file_path), edge.kind, edge.confidence)

\* One turn of the loop over the edges (routes.py lines 207-229).
CollapseEdge(nodes, acc, edge) ==
    LET external_ids == ExternalIds(nodes)
        source_is_external == edge.source \in external_ids
        target_is_external == edge.target \in external_ids
        external_id == IF source_is_external THEN edge.source ELSE edge.target
        other_id == IF source_is_external THEN edge.target ELSE edge.source
        file_path == NodeById(nodes, other_id).path
    IN IF source_is_external = target_is_external
       THEN add_edge(acc, edge.source, edge.target, edge.kind, edge.confidence)
       ELSE IF file_path = NoPath
       THEN add_edge(acc, edge.source, edge.target, edge.kind, edge.confidence)
       ELSE LET grouped == ensure_group_node(acc, file_path,
                                             NodeById(nodes, external_id).name)
            IN IF source_is_external
               THEN add_edge(grouped, GroupId(file_path), other_id, edge.kind, edge.confidence)
               ELSE add_edge(grouped, other_id, GroupId(file_path), edge.kind, edge.confidence)

RECURSIVE CollapseEdges(_, _, _)
CollapseEdges(nodes, acc, edges) ==
    IF edges = <<>> THEN acc
    ELSE CollapseEdges(nodes, CollapseEdge(nodes, acc, Head(edges)), Tail(edges))

\* _collapse_externals
_collapse_externals(nodes, edges) ==
    IF ExternalIds(nodes) = {} THEN [nodes |-> nodes, edges |-> edges]
    ELSE
      LET acc == CollapseEdges(nodes,
                               [grouped_nodes |-> <<>>, grouped_externals |-> {},
                                new_edges |-> <<>>, seen_edges |-> {}],
                               edges)
          referenced == {acc.new_edges[i].source : i \in DOMAIN acc.new_edges}
                        \cup {acc.new_edges[i].target : i \in DOMAIN acc.new_edges}
          retained_nodes == SelectSeq(nodes,
                                      LAMBDA n : n.kind # "external" \/ n.id \in referenced)
          NamesOf(file_path) == {pair[2] : pair \in {q \in acc.grouped_externals :
                                                       q[1] = file_path}}
      IN [nodes |-> retained_nodes \o
                    [i \in DOMAIN acc.grouped_nodes |->
                       GroupNode(acc.grouped_nodes[i], NamesOf(acc.grouped_nodes[i]))],
          edges |-> acc.new_edges]

(***************************************************************************)
(* The graph route: _filter_graph, then _collapse_externals.               *)
(***************************************************************************)
NoGraph == [stage |-> "none", filtered |-> <<>>, nodes |-> <<>>, edges |-> <<>>]

InitGraph ==
    /\ gindex \in {index \in Indexes : WellFormed(index)}
    /\ gscope = <<>>
    /\ gres = NoGraph
    /\ PipeIdle /\ FileIdle /\ ResIdle /\ SnipIdle /\ TocIdle

\* routes.py line 46: nodes, edges = _filter_graph(repo_index, scope)
FilterGraph ==
    /\ gres.stage = "none"
    /\ \E scope \in ScopeTokens :
          /\ gscope' = scope
          /\ LET out == _filter_graph(gindex, scope)
             IN gres' = [stage |-> "filtered", filtered |-> out,
                         nodes |-> out.nodes, edges |-> out.edges]
    /\ UNCHANGED gindex
    /\ UNCHANGED notGraph

\* routes.py line 47: nodes, edges = _collapse_externals(nodes, edges)
CollapseExternals ==
    /\ gres.stage = "filtered"
    /\ LET out == _collapse_externals(gres.nodes, gres.edges)
       IN gres' = [gres EXCEPT !.stage = "collapsed", !.nodes = out.nodes,
                               !.edges = out.edges]
    /\ UNCHANGED <<gindex, gscope>>
    /\ UNCHANGED notGraph

NextGraph ==
    \/ FilterGraph
    \/ CollapseExternals

SpecGraph == InitGraph /\ [][NextGraph]_vars

\* The scope token is empty or is none of 'full', 'group:<name>', 'story:<category>'.
ScopeEmptyOrUnrecognized ==
    \/ gscope = <<>>
    \/ /\ gscope # <<"full">>
       /\ gscope[1] \notin {"group:", "story:"}

\* The located paths of the index that lie in the group the scope names.
PathsOfGroup ==
    { path \in LocatedPaths(gindex.nodes) :
        IF Tail(gscope) = <<"root">>
        THEN Len(path) = 1
        ELSE /\ Len(path) > Len(Tail(gscope))
             /\ \A i \in DOMAIN Tail(gscope) : path[i] = gscope[i + 1]
             /\ path[Len(gscope)] = "/" }

\* The scope is a group: or story: token that selects no file path.
ScopeSelectsNothing ==
    /\ gscope # <<>>
    /\ \/ gscope[1] = "group:" /\ PathsOfGroup = {}
       \/ /\ gscope[1] = "story:"
          /\ StoryPathsGet(_story_scope_paths(gindex), gscope) = {}

\* C8: for a scope token that is empty, unrecognized, or selects no file paths
\* or nodes, _filter_graph returns exactly all nodes and all edges of the index.
C8_BadScopeGivesFullGraph ==
    (gres.stage = "filtered" /\ (ScopeEmptyOrUnrecognized \/ ScopeSelectsNothing)) =>
        /\ gres.filtered.nodes = gindex.nodes
        /\ gres.filtered.edges = gindex.edges

\* C8 witness: a group scope that matches no path of an index with nodes and
\* edges was filtered.
C8_Witness ==
    /\ gres.stage = "filtered"
    /\ gscope = <<"group:", "lib">>
    /\ Len(gindex.nodes) >= 3
    /\ Len(gindex.edges) >= 1

\* The nodes and edges handed to _collapse_externals.
CollapseInput == gres.filtered
\* The edges of the input that join an external node and a node located at path.
BoundaryEdges(path) ==
    LET nodes == CollapseInput.nodes
        edges == CollapseInput.edges
        ext == ExternalIds(nodes)
    IN { i \in DOMAIN edges :
           \/ /\ edges[i].target \in ext
              /\ edges[i].source \notin ext
              /\ NodeById(nodes, edges[i].source).path = path
           \/ /\ edges[i].source \in ext
              /\ edges[i].target \notin ext
              /\ NodeById(nodes, edges[i].target).path = path }
\* The external nodes those edges touch.
BoundaryExternals(path) ==
    LET edges == CollapseInput.edges
        ext == ExternalIds(CollapseInput.nodes)
    IN {IF edges[i].target \in ext THEN edges[i].target ELSE edges[i].source :
          i \in BoundaryEdges(path)}
\* The edge with its external end replaced by the group node of path.
Redirected(edge, path) ==
    LET ext == ExternalIds(CollapseInput.nodes)
        group == <<"external-group:">> \o path
    IN IF edge.target \in ext
       THEN [edge EXCEPT !.target = group]
       ELSE [edge EXCEPT !.source = group]
GroupNodesOf(path) ==
    { j \in DOMAIN gres.nodes : gres.nodes[j].id = <<"external-group:">> \o path }

\* C9: after _collapse_externals every file path with an edge between one of its
\* located nodes and an external node has exactly one node
\* 'external-group:<path>', each such edge is redirected to it, no returned edge
\* joins a located non-external node to an original external node, and the
\* group node's summary gives the number of distinct externals it replaces.
C9_OneGroupNodePerFile ==
    gres.stage = "collapsed" =>
        LET nodes == CollapseInput.nodes
            ext == ExternalIds(nodes)
            out_edges == {gres.edges[i] : i \in DOMAIN gres.edges}
        IN /\ \A path \in LocatedPaths(nodes) :
                 BoundaryEdges(path) # {} =>
                   /\ Cardinality(GroupNodesOf(path)) = 1
                   /\ \A i \in BoundaryEdges(path) :
                         Redirected(CollapseInput.edges[i], path) \in out_edges
                   /\ \A j \in GroupNodesOf(path) :
                         LET count == Cardinality(BoundaryExternals(path))
                         IN gres.nodes[j].summary =
                              <<count, IF count = 1 THEN "external symbol"
                                       ELSE "external symbols">>
           /\ \A edge \in out_edges :
                 /\ ~(/\ edge.target \in ext
                      /\ edge.source \notin ext
                      /\ NodeById(nodes, edge.source).path # NoPath)
                 /\ ~(/\ edge.source \in ext
                      /\ edge.target \notin ext
                      /\ NodeById(nodes, edge.target).path # NoPath)

\* C9 witness: the scope held one file calling two distinct unresolved names,
\* and the result has exactly one group node, summarised "2 external symbols".
C9_Witness ==
    /\ gres.stage = "collapsed"
    /\ LocatedPaths(CollapseInput.nodes) = {<<"main.py">>}
    /\ Cardinality(BoundaryExternals(<<"main.py">>)) = 2
    /\ Cardinality({j \in DOMAIN gres.nodes : gres.nodes[j].kind = "external"}) = 1
    /\ \A j \in DOMAIN gres.nodes :
          gres.nodes[j].kind = "external" =>
            /\ gres.nodes[j].id = <<"external-group:", "main.py">>
            /\ gres.nodes[j].summary = <<2, "external symbols">>

\* C11: every edge list the graph query returns (_filter_graph, then
\* _collapse_externals) holds no two edges with the same
\* (source, target, kind, confidence), whatever the index and the scope.
C11_NoDuplicateEdges ==
    gres.stage = "collapsed" =>
        \A i, j \in DOMAIN gres.edges : gres.edges[i] = gres.edges[j] => i = j

\* The symbol's recorded extent ends at a line the parser determined.
ExtentRecorded ==
    sreq.location.end_line >= Max(1, sreq.location.start_line)

\* C12: the truncated flag of a returned snippet is true iff the range leaves
\* out lines of the symbol's extent: for a file node iff end_line < total_lines,
\* for another node (with a recorded extent) iff end_line is smaller than the
\* recorded end_line clamped to the file length; a span of exactly max_lines
\* lines returned in full is reported with truncated = FALSE.
C12_TruncatedIffCut ==
    (sres.op = "snippet" /\ sres.snippet.outcome = "returned") =>
        LET out == sres.snippet IN
        /\ sreq.kind = "file" =>
              (out.truncated <=> out.end_line < out.total_lines)
        /\ (sreq.kind # "file" /\ ExtentRecorded) =>
              (out.truncated <=>
                 out.end_line < Min(sreq.location.end_line, out.total_lines))

(***************************************************************************)
(* routes.py: the table of contents query (toc, _build_tree_toc,           *)
(* _build_story_toc over _story_scope_paths).  The response's stats and    *)
(* warnings are copied from the index and are left out.                    *)
(***************************************************************************)
\* The nodes an index may hold: files with conventional and other names, in
\* the root and in two packages, blueprint symbols, functions, and two
\* external nodes.
StoryNodeUniverse ==
    << GraphNode(<<"file", "app.py">>, "app.py", "file", <<"app.py">>),
       GraphNode(<<"file", "config.py">>, "config.py", "file", <<"config.py">>),
       GraphNode(<<"file", "app/views.py">>, "views.py", "file", <<"app", "/", "views.py">>),
       GraphNode(<<"file", "lib/pages.py">>, "pages.py", "file", <<"lib", "/", "pages.py">>),
       GraphNode(<<"file", "util.py">>, "util.py", "file", <<"util.py">>),
       GraphNode(<<"symbol", "app.bp">>, "bp", "blueprint", <<"app.py">>),
       GraphNode(<<"symbol", "lib.pages.pages">>, "pages", "blueprint",
                 <<"lib", "/", "pages.py">>),
       GraphNode(<<"symbol", "config.load">>, "load", "function", <<"config.py">>),
       GraphNode(<<"symbol", "app.views.index">>, "index", "function",
                 <<"app", "/", "views.py">>),
       GraphNode(<<"symbol", "lib.pages.show">>, "show", "function",
                 <<"lib", "/", "pages.py">>),
       GraphNode(<<"external", "render_template">>, "render_template", "external", NoPath),
       GraphNode(<<"external", "getcwd">>, "getcwd", "external", NoPath) >>
\* The edges an index may hold, by positions in StoryNodeUniverse.
StoryEdgeUniverse ==
    { <<8, 11, "calls", "low">>, <<9, 11, "calls", "low">>, <<10, 11, "calls", "low">>,
      <<10, 12, "calls", "low">> }
StoryEdgeOf(e) ==
    GraphEdge(StoryNodeUniverse[e[1]].id, StoryNodeUniverse[e[2]].id, e[3], e[4])

\* The indexes served to the table of contents: a subset of the node universe
\* in insertion order and a list of edges between nodes of the index.
StoryIndexes ==
    { index \in
        { [nodes |-> SelectSeq(StoryNodeUniverse,
                               LAMBDA n : n.id \in {StoryNodeUniverse[i].id : i \in chosen}),
           edges |-> [i \in DOMAIN es |-> StoryEdgeOf(es[i])]] :
            chosen \in SUBSET (DOMAIN StoryNodeUniverse),
            es \in SeqsUpTo(StoryEdgeUniverse, MaxStoryEdges) } :
        WellFormed(index) }

\* The located file nodes' paths (routes.py lines 261-264 and 311-315).
FilePaths(repo_index) ==
    {repo_index.nodes[i].path :
       i \in {j \in DOMAIN repo_index.nodes :
                repo_index.nodes[j].kind = "file" /\ repo_index.nodes[j].path # NoPath}}

\* A chapter of the table of contents.
Chapter(scope, title, summary) ==
    [id |-> scope, title |-> title, summary |-> summary, scope |-> scope]

\* The group of a path in the tree grouping: 'root' without a directory
\* component, the first component otherwise.
TreeGroup(path) == IF Len(path) = 1 THEN "root" ELSE path[1]
\* sorted(groups.items(), key=(group != 'root', group)) over the groups the
\* node universe can yield.
GroupOrder == <<"root", "app", "lib">>

\* _build_tree_toc
_build_tree_toc(repo_index) ==
    LET nodes == repo_index.nodes
        counted == {j \in DOMAIN nodes : nodes[j].kind = "file" /\ nodes[j].path # NoPath}
        count(group) == Cardinality({j \in counted : TreeGroup(nodes[j].path) = group})
        ordered_groups == SelectSeq(GroupOrder, LAMBDA group : count(group) > 0)
    IN [i \in DOMAIN ordered_groups |->
          LET group == ordered_groups[i] IN
          Chapter(<<"group:", group>>,
                  IF group = "root" THEN <<"Root files">> ELSE <<"Package: ", group>>,
                  <<count(group), "files">>)]

\* order of _build_story_toc: scope and title of each chapter.
StoryOrder ==
    << << <<"story:", "entry">>, "Entry points" >>,
       << <<"story:", "config">>, "Configuration" >>,
       << <<"story:", "routes">>, "Blueprints & Routes" >>,
       << <<"story:", "templates">>, "Templates" >>,
       << <<"story:", "other">>, "Other modules" >> >>

\* _build_story_toc
_build_story_toc(repo_index) ==
    LET paths_by_scope == _story_scope_paths(repo_index)
        kept == SelectSeq(StoryOrder,
                          LAMBDA item : StoryPathsGet(paths_by_scope, item[1]) # {})
    IN [i \in DOMAIN kept |->
          LET scope == kept[i][1]
              paths == StoryPathsGet(paths_by_scope, scope)
          IN Chapter(scope, kept[i][2],
                     IF scope # <<"story:", "templates">>
                     THEN <<Cardinality(paths), "files">>
                     ELSE <<Cardinality(paths), "files (inferred)">>)]

\* The mode argument of the request; absent, it is 'story'.
TocModes == {"story", "tree", "bogus"}

\* toc: the view of /api/toc, the index loaded.
toc(repo_index, mode) ==
    IF mode = "tree"
    THEN [chapters |-> _build_tree_toc(repo_index), mode |-> mode]
    ELSE LET chapters == _build_story_toc(repo_index) IN
         IF chapters = <<>>
         THEN [chapters |-> _build_tree_toc(repo_index), mode |-> "tree"]
         ELSE [chapters |-> chapters, mode |-> mode]

NoToc == [op |-> "none"]

InitToc ==
    /\ tindex \in StoryIndexes
    /\ tres = NoToc
    /\ PipeIdle /\ FileIdle /\ ResIdle /\ SnipIdle /\ GraphIdle

\* routes.py line 283: paths_by_scope = _story_scope_paths(repo_index)
StoryScopePaths ==
    /\ tres = NoToc
    /\ tres' = [op |-> "paths", paths |-> _story_scope_paths(tindex)]
    /\ UNCHANGED tindex
    /\ UNCHANGED notToc

\* A client requests /api/toc.
Toc ==
    /\ tres = NoToc
    /\ \E mode \in TocModes : tres' = [op |-> "toc", response |-> toc(tindex, mode)]
    /\ UNCHANGED tindex
    /\ UNCHANGED notToc

NextToc ==
    \/ StoryScopePaths
    \/ Toc

SpecToc == InitToc /\ [][NextToc]_vars

\* The categories of the story grouping, in priority order.
StoryCategories == <<"entry", "config", "routes", "templates", "other">>
\* The path set the query returned for category number k.
StoryPathSet(k) == StoryPathsGet(tres.paths, <<"story:", StoryCategories[k]>>)

\* A node of the index located at path calls a template-rendering external.
CallsRenderTemplate(path) ==
    \E i \in DOMAIN tindex.edges :
        /\ NodeById(tindex.nodes, tindex.edges[i].source).path = path
        /\ NodeById(tindex.nodes, tindex.edges[i].target).kind = "external"
        /\ NodeById(tindex.nodes, tindex.edges[i].target).name = "render_template"
\* A blueprint symbol of the index is located at path.
HoldsBlueprint(path) ==
    \E i \in DOMAIN tindex.nodes :
        tindex.nodes[i].kind = "blueprint" /\ tindex.nodes[i].path = path
\* path qualifies for category number k (spec.md section 4.5).
Qualifies(path, k) ==
    LET is_file == path \in FilePaths(tindex)
        name == path[Len(path)]
    IN CASE k = 1 -> is_file /\ name \in entry_names
         [] k = 2 -> is_file /\ name \in config_names
         [] k = 3 -> (is_file /\ name \in route_filenames) \/ HoldsBlueprint(path)
         [] k = 4 -> CallsRenderTemplate(path)
         [] OTHER -> is_file

\* C13: the five path sets of _story_scope_paths are pairwise disjoint, every
\* file node's path lies in exactly one of them, and a path that qualifies for
\* several categories lies in the earliest of them in the order
\* entry, config, routes, templates, other.
C13_StoryPriorityPartition ==
    tres.op = "paths" =>
        LET cats == DOMAIN StoryCategories IN
        /\ \A k, l \in cats : k # l => StoryPathSet(k) \cap StoryPathSet(l) = {}
        /\ \A path \in FilePaths(tindex) :
              Cardinality({k \in cats : path \in StoryPathSet(k)}) = 1
        /\ \A path \in LocatedPaths(tindex.nodes) :
              \A k \in cats :
                 (Qualifies(path, k) /\ \A l \in 1..(k - 1) : ~Qualifies(path, l)) =>
                    path \in StoryPathSet(k)

\* C13 witness: app.py holds a blueprint and config.py calls render_template,
\* so each qualifies for two categories; they were placed in entry and config,
\* and the routes, templates and other sets are not empty either.
C13_Witness ==
    /\ tres.op = "paths"
    /\ Qualifies(<<"app.py">>, 1) /\ Qualifies(<<"app.py">>, 3)
    /\ Qualifies(<<"config.py">>, 2) /\ Qualifies(<<"config.py">>, 4)
    /\ <<"app.py">> \in tres.paths.entry
    /\ <<"config.py">> \in tres.paths.config
    /\ tres.paths.routes # {}
    /\ tres.paths.templates # {}
    /\ tres.paths.other # {}

====
